---- MODULE Spec2Model ----
(***************************************************************************)
(* A model of the SPF (RFC 7208) evaluator of zaccone/spf: the lookup      *)
(* budget wrapper (resolver_limited.go), the session driver checkHost      *)
(* (spf.go) and the parser's mechanism evaluation, include and redirect    *)
(* recursion (parser.go).                                                  *)
(*                                                                         *)
(* Domain names are sequences of one-character strings, so that            *)
(* isDomainName and normalizeFQDN are computed as the code computes them.  *)
(* A TXT policy is the sequence of tokens the lexer hands to sortTokens.   *)
(***************************************************************************)
EXTENDS Integers, Sequences, FiniteSets, TLC

(***************************************************************************)
(* Bounds of the model.                                                    *)
(***************************************************************************)
\* most mechanisms that follow the version token in a generated policy
MaxMechs == 2
\* largest limit handed to NewLimitedResolver in the wrapper specification
MaxLimit == 3
\* number of goroutines that call one wrapper concurrently
NumCallers == 2
\* most calls made on one wrapper in the wrapper specification
MaxCalls == 4
\* most MX hosts an MX answer carries
MaxMXHosts == 2

(***************************************************************************)
(* Program constants.                                                      *)
(***************************************************************************)
\* spf.go:115  limit: 10
LookupLimit == 10

(***************************************************************************)
(* Results (spf.go:46-80) and errors (spf.go:11-17).                       *)
(***************************************************************************)
Result ==
  {"None", "Neutral", "Pass", "Fail", "Softfail", "Temperror", "Permerror",
   "internalError"}

Canonical ==
  {"None", "Neutral", "Pass", "Fail", "Softfail", "Temperror", "Permerror"}

Qualifiers == {"qPlus", "qMinus", "qTilde", "qQuestionMark"}

\* the qualifier ~ is not known
matchingResultNoTilde(qualifier) ==
  CASE qualifier = "qPlus" -> [result |-> "Pass", err |-> "nil"]
    [] qualifier = "qMinus" -> [result |-> "Fail", err |-> "nil"]
    [] qualifier = "qQuestionMark" -> [result |-> "Neutral", err |-> "nil"]
    [] OTHER -> [result |-> "internalError", err |-> "invalid qualifier"]

\* parser.go:615-628
matchingResult(qualifier) ==
  CASE qualifier = "qPlus" -> [result |-> "Pass", err |-> "nil"]
    [] qualifier = "qMinus" -> [result |-> "Fail", err |-> "nil"]
    [] qualifier = "qQuestionMark" -> [result |-> "Neutral", err |-> "nil"]
    [] qualifier = "qTilde" -> [result |-> "Softfail", err |-> "nil"]
    [] OTHER -> [result |-> "internalError", err |-> "invalid qualifier"]

(***************************************************************************)
(* Token kinds (tokenType, unnamed/part_004:95-183).                       *)
(***************************************************************************)
MechanismTypes ==
  {"tVersion", "tAll", "tA", "tIP4", "tIP6", "tMX", "tPTR", "tInclude",
   "tExists"}

ModifierTypes == {"tRedirect", "tExp"}

isErr(tok) == tok = "tErr"

isMechanism(tok) == tok \in MechanismTypes

isModifier(tok) == tok \in ModifierTypes

(***************************************************************************)
(* A token (unnamed/part_004:217-221).  Its value string is kept in parsed *)
(* pieces: value is the text before the first "/", masks the "/"-separated *)
(* pieces after it, and ip the address the text denotes when it is the     *)
(* argument of ip4 or ip6.                                                 *)
(***************************************************************************)
NoIP == [form |-> "none", fam |-> 0, addr |-> 0, plen |-> 0]

\* the nil *token of parser.Redirect and parser.Explanation
NoToken ==
  [mechanism |-> "nil", qualifier |-> "nil", value |-> <<>>, masks |-> <<>>,
   ip |-> NoIP]

Tok(m, q, v) ==
  [mechanism |-> m, qualifier |-> q, value |-> v, masks |-> <<>>, ip |-> NoIP]

TokIP(m, q, a) ==
  [mechanism |-> m, qualifier |-> q, value |-> <<>>, masks |-> <<>>, ip |-> a]

\* the value string of t is ""
emptyValue(t) == t.value = <<>> /\ t.masks = <<>> /\ t.ip.form = "none"

(***************************************************************************)
(* Domain names.                                                           *)
(***************************************************************************)
Letters == {"a", "b", "c", "_"}

Digits == {"1"}

\* spf.go:151-197, the loop over the bytes of s from position i
RECURSIVE isDomainNameFrom(_, _, _, _, _)
isDomainNameFrom(s, i, last, ok, partlen) ==
  IF i > Len(s)
    THEN IF last = "-" \/ partlen > 63 THEN FALSE ELSE ok
    ELSE LET c == s[i] IN
      CASE c \in Letters -> isDomainNameFrom(s, i + 1, c, TRUE, partlen + 1)
        [] c \in Digits -> isDomainNameFrom(s, i + 1, c, ok, partlen + 1)
        [] c = "-" ->
             IF last = "." THEN FALSE
             ELSE isDomainNameFrom(s, i + 1, c, ok, partlen + 1)
        [] c = "." ->
             IF last = "." \/ last = "-" THEN FALSE
             ELSE IF partlen > 63 \/ partlen = 0 THEN FALSE
             ELSE isDomainNameFrom(s, i + 1, c, ok, 0)
        [] OTHER -> FALSE

\* spf.go:151-197
\* every name but the empty one is taken for a domain name
isDomainNameLax(s) == Len(s) # 0

isDomainName(s) ==
  IF Len(s) = 0 THEN FALSE
  ELSE IF Len(s) > 255 THEN FALSE
  ELSE isDomainNameFrom(s, 1, ".", FALSE, 0)

\* spf.go:200-208
normalizeFQDN(name) ==
  IF Len(name) = 0 THEN <<>>
  ELSE IF name[Len(name)] # "." THEN Append(name, ".")
  ELSE name

\* unnamed/part_005:129
isEmpty(s) == s = <<>>

\* parser.go:749-754
nonemptyString(s, def) == IF s = <<>> THEN def ELSE s

(***************************************************************************)
(* Classification (parser.sortTokens).                                     *)
(***************************************************************************)
\* parser.go:715-740, the loop from token i on
RECURSIVE sortFrom(_, _, _, _, _, _)
sortFrom(tokens, i, all, mechs, redirect, explanation) ==
  IF i > Len(tokens)
    THEN [err |-> "nil", Mechanisms |-> mechs,
          Redirect |-> IF all THEN NoToken ELSE redirect,
          Explanation |-> explanation]
    ELSE LET token == tokens[i] IN
      IF isErr(token.mechanism)
        THEN [err |-> "syntax error", Mechanisms |-> mechs,
              Redirect |-> redirect, Explanation |-> explanation]
      ELSE IF isMechanism(token.mechanism) /\ ~all
        THEN sortFrom(tokens, i + 1, token.mechanism = "tAll",
                      Append(mechs, token), redirect, explanation)
      ELSE IF token.mechanism = "tRedirect"
        THEN IF redirect = NoToken
               THEN sortFrom(tokens, i + 1, all, mechs, token, explanation)
               ELSE [err |-> "too many redirect", Mechanisms |-> mechs,
                     Redirect |-> redirect, Explanation |-> explanation]
      ELSE IF token.mechanism = "tExp"
        THEN IF explanation = NoToken
               THEN sortFrom(tokens, i + 1, all, mechs, redirect, token)
               ELSE [err |-> "too many exp", Mechanisms |-> mechs,
                     Redirect |-> redirect, Explanation |-> explanation]
      ELSE sortFrom(tokens, i + 1, all, mechs, redirect, explanation)

\* the redirect is kept when an all mechanism is present
sortTokensKeepsRedirect(tokens) ==
  LET r == sortFrom(tokens, 1, FALSE, <<>>, NoToken, NoToken)
      reds == {i \in 1..Len(tokens) : tokens[i].mechanism = "tRedirect"}
  IN IF r.err = "nil" /\ reds # {}
       THEN [r EXCEPT !.Redirect = tokens[CHOOSE i \in reds : TRUE]]
       ELSE r

\* the tokens after an all mechanism are not looked at
sortTokensStopsAtAll(tokens) ==
  LET alls == {i \in 1..Len(tokens) : tokens[i].mechanism = "tAll"}
      upto == IF alls = {} THEN Len(tokens)
              ELSE CHOOSE i \in alls : \A j \in alls : i <= j
  IN sortFrom(SubSeq(tokens, 1, upto), 1, FALSE, <<>>, NoToken, NoToken)

\* parser.go:713-747
sortTokens(tokens) == sortFrom(tokens, 1, FALSE, <<>>, NoToken, NoToken)

(***************************************************************************)
(* Addresses.  An address has a family (4 or 6) and AddrBits bits; a CIDR  *)
(* has in addition a prefix length.  form is "cidr", "ip" or "bad" (text   *)
(* that neither net.ParseCIDR nor net.ParseIP accepts).                    *)
(***************************************************************************)
AddrBits == 2

RECURSIVE Pow2(_)
Pow2(n) == IF n <= 0 THEN 1 ELSE 2 * Pow2(n - 1)

\* net.IPNet.Contains for the network ParseCIDR returns: same family and
\* same leading plen bits
Contains(net, ip) ==
  /\ net.fam = ip.fam
  /\ net.addr \div Pow2(AddrBits - net.plen) = ip.addr \div Pow2(AddrBits - net.plen)

\* net.IP.Equal
EqualIP(a, ip) == a.fam = ip.fam /\ a.addr = ip.addr

Ret(m, r, e) == [matches |-> m, result |-> r, err |-> e]

(***************************************************************************)
(* Mechanisms without recursion.                                           *)
(***************************************************************************)
SPF1 == <<"s", "p", "f", "1">>

\* parser.go:756-762
parseVersion(t) ==
  IF t.value = SPF1 THEN Ret(FALSE, "None", "nil")
  ELSE Ret(TRUE, "Permerror", "SyntaxError")

\* parser.go:764-771
parseAll(t) ==
  LET r == matchingResult(t.qualifier) IN
  IF r.err # "nil" THEN Ret(TRUE, "Permerror", "SyntaxError")
  ELSE Ret(TRUE, r.result, "nil")

\* parser.go:773-788
parseIP4(t, IP) ==
  LET result == matchingResult(t.qualifier).result IN
  IF t.ip.form = "cidr"
    THEN IF t.ip.fam # 4 THEN Ret(TRUE, "Permerror", "SyntaxError")
         ELSE Ret(Contains(t.ip, IP), result, "nil")
  ELSE IF t.ip.form # "ip" \/ t.ip.fam # 4
    THEN Ret(TRUE, "Permerror", "SyntaxError")
  ELSE Ret(EqualIP(t.ip, IP), result, "nil")

\* parser.go:790-807; ip.To16() is nil for no address ParseCIDR returns
parseIP6(t, IP) ==
  LET result == matchingResult(t.qualifier).result IN
  IF t.ip.form = "cidr"
    THEN Ret(Contains(t.ip, IP), result, "nil")
  ELSE IF t.ip.form # "ip" \/ t.ip.fam = 4
    THEN Ret(TRUE, "Permerror", "SyntaxError")
  ELSE Ret(EqualIP(t.ip, IP), result, "nil")

(***************************************************************************)
(* Mechanisms that query DNS.  The answer of each DNS exchange is an       *)
(* input: "err" (transport failure), "servfail" (an RCODE other than 0 and *)
(* 3), "nxdomain" (RCODE 3), "hit" (RCODE 0 and an answer that covers the  *)
(* client IP under the mask), "miss" (RCODE 0 and no such answer).         *)
(***************************************************************************)
Exchange == {"err", "servfail", "nxdomain", "hit", "miss"}

\* one "/"-separated piece of a value after the host
Mask(k, n) == [kind |-> k, n |-> n]

\* parser.go:1136-1173, one netmask string against the family's length
maskOK(m, len) ==
  \/ m.kind = "empty"
  \/ m.kind = "num" /\ m.n >= 0 /\ m.n <= len

\* parser.go:1114-1176; domain is the text [value, masks]
splitToHostNetwork(value, masks) ==
  LET n4s == IF Len(masks) >= 1 THEN masks[1] ELSE Mask("num", 32)
      n6s == IF Len(masks) >= 2 THEN masks[2] ELSE Mask("num", 128)
  IN IF ~isDomainName(value) THEN [ok |-> FALSE, host |-> value]
     ELSE IF ~maskOK(n4s, 32) THEN [ok |-> FALSE, host |-> value]
     ELSE IF ~maskOK(n6s, 128) THEN [ok |-> FALSE, host |-> value]
     ELSE [ok |-> TRUE, host |-> value]

\* parser.go:818 and 881: splitToHostNetwork(nonemptyString(t.value, p.Domain))
splitValue(t, Domain) ==
  IF emptyValue(t) THEN splitToHostNetwork(Domain, <<>>)
  ELSE splitToHostNetwork(t.value, t.masks)

\* parser.go:836-866, the loop from query i on
RECURSIVE parseAFrom(_, _, _)
parseAFrom(answers, i, result) ==
  IF i > Len(answers) THEN Ret(FALSE, result, "nil")
  ELSE CASE answers[i] = "err" -> Ret(TRUE, "Temperror", "SyntaxError")
         [] answers[i] = "servfail" -> Ret(TRUE, "Temperror", "SyntaxError")
         [] answers[i] = "nxdomain" -> Ret(FALSE, "None", "nil")
         [] answers[i] = "hit" -> Ret(TRUE, result, "nil")
         [] OTHER -> parseAFrom(answers, i + 1, result)

\* an a mechanism without a value matches without a query
parseAEmptyMatches(t, Domain, answers) ==
  LET result == matchingResult(t.qualifier).result IN
  IF emptyValue(t) THEN Ret(TRUE, result, "nil")
  ELSE IF ~splitValue(t, Domain).ok THEN Ret(TRUE, "Permerror", "SyntaxError")
  ELSE parseAFrom(answers, 1, result)

\* parser.go:809-869; answers are those of the A and the AAAA exchange
parseA(t, Domain, answers) ==
  LET result == matchingResult(t.qualifier).result IN
  IF ~splitValue(t, Domain).ok THEN Ret(TRUE, "Permerror", "SyntaxError")
  ELSE parseAFrom(answers, 1, result)

\* parser.go:911-956, the loop from query i on
RECURSIVE firstMatchFrom(_, _)
firstMatchFrom(answers, i) ==
  IF i > Len(answers) THEN FALSE
  ELSE CASE answers[i] = "err" -> FALSE
         [] answers[i] \in {"servfail", "nxdomain"} -> FALSE
         [] answers[i] = "hit" -> TRUE
         [] OTHER -> firstMatchFrom(answers, i + 1)

\* parser.go:911-956
firstMatch(answers) == firstMatchFrom(answers, 1)

\* parser.go:871-984; mx is the answer of the MX exchange ("hit" stands for
\* an answer with records, "miss" for an empty one), hosts the A and AAAA
\* answers of each MX host.  The loop over hits returns true exactly if
\* some worker sends true.
parseMX(t, Domain, mx, hosts) ==
  LET result == matchingResult(t.qualifier).result IN
  IF ~splitValue(t, Domain).ok THEN Ret(TRUE, "Permerror", "SyntaxError")
  ELSE CASE mx = "err" -> Ret(FALSE, "None", "SyntaxError")
         [] mx = "servfail" -> Ret(TRUE, "Temperror", "SyntaxError")
         [] mx = "nxdomain" -> Ret(FALSE, "None", "SyntaxError")
         [] mx = "miss" -> Ret(FALSE, result, "nil")
         [] OTHER ->
              IF \E h \in 1..Len(hosts) : firstMatch(hosts[h])
                THEN Ret(TRUE, result, "nil")
                ELSE Ret(FALSE, result, "nil")

\* macro.go parseMacroToken on a value without "%": the text is copied
parseMacroToken(t) == [err |-> "nil", text |-> t.value]

\* parser.go:1031-1053, the loop from query i on ("hit" stands for an
\* answer with records, "miss" for an empty one)
RECURSIVE parseExistsFrom(_, _, _)
parseExistsFrom(answers, i, result) ==
  IF i > Len(answers) THEN Ret(FALSE, result, "nil")
  ELSE CASE answers[i] = "err" -> Ret(TRUE, "Temperror", "SyntaxError")
         [] answers[i] = "nxdomain" -> Ret(FALSE, result, "nil")
         [] answers[i] = "servfail" -> Ret(TRUE, "Temperror", "SyntaxError")
         [] answers[i] = "hit" -> Ret(TRUE, result, "nil")
         [] OTHER -> parseExistsFrom(answers, i + 1, result)

\* parser.go:1018-1054
parseExists(t, answers) ==
  LET result == matchingResult(t.qualifier).result
      resolved == parseMacroToken(t)
  IN IF resolved.err # "nil" THEN Ret(TRUE, "Permerror", "SyntaxError")
     ELSE IF isEmpty(resolved.text) THEN Ret(TRUE, "Permerror", "SyntaxError")
     ELSE parseExistsFrom(answers, 1, result)

(***************************************************************************)
(* The lookup budget (resolver_limited.go:81-91, unnamed/part_004:232-242).*)
(* checkAndDecrLimit is two atomic operations: a load and an add.          *)
(***************************************************************************)
\* resolver_limited.go:82-85, the test of the loaded value
loadFails(v) == v < 1

\* the add's result is not tested
addNeverFails(v) == FALSE

\* the call that takes the counter to 0 is still let through
addFailsBelowZero(v) == v < 0

\* resolver_limited.go:86-89, the test of the value AddInt32 returns
addFails(v) == v < 1

\* resolver_limited.go:81-91 run by one goroutine with no other in between
checkAndDecrLimit(l) ==
  IF loadFails(l) THEN [err |-> "errDNSLimitExceeded", limit |-> l]
  ELSE IF addFails(l - 1) THEN [err |-> "errDNSLimitExceeded", limit |-> l - 1]
  ELSE [err |-> "nil", limit |-> l - 1]

(***************************************************************************)
(* The DNS zone of an evaluation: the names, the client and the policies   *)
(* a TXT answer is drawn from.                                             *)
(***************************************************************************)
A == <<"a">>

B == <<"b">>

ClientIP == [form |-> "ip", fam |-> 4, addr |-> 1, plen |-> 0]

OtherIP == [form |-> "ip", fam |-> 4, addr |-> 2, plen |-> 0]

Version == Tok("tVersion", "qPlus", SPF1)

MechPool ==
  {Tok("tAll", "qMinus", <<>>),
   TokIP("tIP4", "qPlus", ClientIP), TokIP("tIP4", "qTilde", OtherIP),
   Tok("tA", "qPlus", <<>>),
   Tok("tInclude", "qPlus", B), Tok("tInclude", "qMinus", B)}

ModSeqs == {<<>>, <<Tok("tRedirect", "qPlus", B)>>}

RECURSIVE SeqsUpTo(_, _)
SeqsUpTo(S, n) ==
  IF n = 0 THEN {<<>>}
  ELSE LET shorter == SeqsUpTo(S, n - 1)
       IN shorter \cup {Append(q, x) : q \in shorter, x \in S}

\* policies that exercise the remaining token kinds
ExtraPolicies ==
  {<<Version, Tok("tMX", "qPlus", <<>>), Tok("tAll", "qMinus", <<>>)>>,
   <<Version, Tok("tExists", "qPlus", B), Tok("tAll", "qMinus", <<>>)>>,
   <<Version, Tok("tPTR", "qPlus", <<>>), TokIP("tIP6", "qPlus", ClientIP)>>,
   <<Version, Tok("tInclude", "qPlus", <<>>), Tok("tAll", "qMinus", <<>>)>>,
   <<Version, Tok("tAll", "qMinus", <<>>), Tok("tExp", "qPlus", B)>>,
   <<Version, Tok("tErr", "qErr", <<>>), Tok("tAll", "qMinus", <<>>)>>,
   <<Version, Tok("tRedirect", "qPlus", B), Tok("tRedirect", "qPlus", A)>>,
   <<Tok("tVersion", "qPlus", <<"s", "p", "f">>), Tok("tAll", "qPlus", <<>>)>>,
   <<Version, Tok("tInclude", "qPlus", A), Tok("tAll", "qMinus", <<>>)>>,
   <<Version, TokIP("tIP4", "qPlus", ClientIP), Tok("tExp", "qPlus", B)>>}
    \cup {<<Version, Tok("tAll", q, <<>>)>> : q \in Qualifiers}

Policies ==
  {<<Version>> \o m \o r : m \in SeqsUpTo(MechPool, MaxMechs), r \in ModSeqs}
    \cup ExtraPolicies

\* the policies of the name an include or a redirect leads to
InnerPolicies ==
  {<<Version>>}
    \cup {<<Version, Tok("tAll", q, <<>>)>> : q \in Qualifiers}
    \cup {<<Version, TokIP("tIP4", "qTilde", OtherIP)>>,
          <<Version, Tok("tA", "qPlus", <<>>)>>,
          <<Version, Tok("tInclude", "qPlus", A), Tok("tAll", "qMinus", <<>>)>>,
          <<Version, Tok("tRedirect", "qPlus", B)>>,
          <<Version, Tok("tAll", "qMinus", <<>>), Tok("tExp", "qPlus", B)>>,
          <<Version, Tok("tErr", "qErr", <<>>)>>}

TXTOf(ps) ==
  {[kind |-> "nxdomain", tokens |-> <<>>], [kind |-> "temperror", tokens |-> <<>>]}
    \cup {[kind |-> "txt", tokens |-> p] : p \in ps}

\* what the wrapped resolver's LookupTXT may return for name n
TXTAnswers(n) ==
  IF n = normalizeFQDN(A) THEN TXTOf(Policies) ELSE TXTOf(InnerPolicies)

Unknown == [kind |-> "unknown", tokens |-> <<>>]

ZoneNames == {normalizeFQDN(A), normalizeFQDN(B), normalizeFQDN(<<"-", "a">>)}

(***************************************************************************)
(* The goroutines that call one wrapper, and the wrapped resolver          *)
(* (resolver_meikg.go).                                                    *)
(***************************************************************************)
Callers == 1..NumCallers

\* a wrapper operation; for MatchMX, mx tells whether the MX exchange
\* succeeded and hosts how many MX records it returned
Op(n, m, h) == [name |-> n, mx |-> m, hosts |-> h]

NoOp == Op("none", "ok", 0)

Ops ==
  {Op(n, "ok", 0) : n \in {"LookupTXT", "Exists", "MatchIP"}}
    \cup {Op("MatchMX", "err", 0)}
    \cup {Op("MatchMX", "ok", h) : h \in 0..MaxMXHosts}

\* the DNS exchanges one call of the wrapped resolver makes:
\* resolver_meikg.go:42-58, 63-73, 95-131 (a goroutine and an exchange for
\* each of A and AAAA), 137-174 (the MX exchange, then MatchIP per MX record)
miekgQueries(op) ==
  CASE op.name = "LookupTXT" -> 1
    [] op.name = "Exists" -> 1
    [] op.name = "MatchIP" -> 2
    [] op.name = "MatchMX" -> IF op.mx = "err" THEN 1 ELSE 1 + 2 * op.hosts
    [] OTHER -> 0

\* the counter is incremented
addInt32Up(l) == l + 1

\* the counter is decremented twice
addInt32Twice(l) == l - 2

\* resolver_limited.go:86: atomic.AddInt32(&r.limit, -1)
addInt32(l) == l - 1

NoCall ==
  [op |-> NoOp, pre |-> 0, decr |-> 0, queries |-> 0, err |-> "nil"]

(***************************************************************************)
(* The state of one evaluation.                                            *)
(***************************************************************************)
VARIABLES
  limit,      \* limitedResolver.limit
  delegated,  \* number of calls passed to the wrapped resolver
  limitHit,   \* some resolver call returned errDNSLimitExceeded
  txt,        \* the TXT answer of each zone name, once it was queried
  stack,      \* the active checkHost/parse calls, the innermost last
  ret,        \* the values the last returning checkHost returned
  phase,      \* "idle", "running", "done"
  last,       \* the parse call that returned last
  limit0,     \* the limit the wrapper was created with
  cpc,        \* where each calling goroutine is in checkAndDecrLimit
  cop,        \* the wrapper operation each calling goroutine runs
  ncalls,     \* number of calls made on the wrapper
  lastCall,   \* the wrapper call that returned last
  queries,    \* number of DNS exchanges the wrapped resolver made
  decrements  \* number of AddInt32(&r.limit, -1) executed

\* the variables of the evaluation besides the wrapper's counter
evars == <<txt, stack, ret, phase, last>>

\* the variables of the goroutines that call one wrapper
lvars == <<limit0, cpc, cop, ncalls, lastCall, queries, decrements>>

(***************************************************************************)
(* The state of one MatchIP or MatchMX call of the wrapped resolver.       *)
(***************************************************************************)
VARIABLES
  mcall,    \* the call: its operation and the answers DNS gives to it
  workers,  \* the goroutines the call started: where each is, what it sends
  closed,   \* close(hits) was executed
  mrecv,    \* the caller: "idle", "range" (receiving from hits), "returned"
  mret      \* the (found, err) the call returned

mvars == <<mcall, workers, closed, mrecv, mret>>

(***************************************************************************)
(* One call of a function of the parser on given arguments.                *)
(***************************************************************************)
VARIABLES
  fin,   \* the function called and its arguments
  fout   \* what it returned, once it has

pvars == <<fin, fout>>

vars ==
  <<limit, delegated, limitHit, txt, stack, ret, phase, last, limit0, cpc,
    cop, ncalls, lastCall, queries, decrements, mcall, workers, closed,
    mrecv, mret, fin, fout>>

NoInput == [fn |-> "none"]

NotRun == [done |-> FALSE]

InitPure ==
  /\ fin = NoInput
  /\ fout = NotRun

\* resolver_meikg.go: type hit, the value sent on the channel hits
Hit(found, err) == [found |-> found, err |-> err]

NoMatchCall == [name |-> "none", mx |-> "miss", answers |-> <<>>, closer |-> FALSE]

InitMatch ==
  /\ mcall = NoMatchCall
  /\ workers = <<>>
  /\ closed = FALSE
  /\ mrecv = "idle"
  /\ mret = Hit(FALSE, "nil")

TopDomains == {A, <<"-", "a">>}

\* newParser (parser.go:658-660) in the frame of checkHost (spf.go:120)
NewFrame(d) ==
  [Domain |-> d, pc |-> "checkHost", Mechanisms |-> <<>>,
   Redirect |-> NoToken, Explanation |-> NoToken, i |-> 1,
   result |-> "None", err |-> "nil", log |-> <<>>]

Returned(r, x, e) == [result |-> r, explanation |-> x, err |-> e]

NoParse ==
  [Domain |-> <<>>, classified |-> FALSE, Mechanisms |-> <<>>,
   Redirect |-> NoToken, log |-> <<>>, redirected |-> FALSE,
   result |-> "None"]

Top == stack[Len(stack)]

Pop == SubSeq(stack, 1, Len(stack) - 1)

SetTop(f) == [stack EXCEPT ![Len(stack)] = f]

\* one evaluated mechanism: its token, what it returned and, for an include,
\* what the inner evaluation returned
Entry(t, mr, inner) ==
  [mechanism |-> t.mechanism, qualifier |-> t.qualifier,
   matches |-> mr.matches, result |-> mr.result, inner |-> inner]

Init ==
  /\ limit = LookupLimit
  /\ delegated = 0
  /\ limitHit = FALSE
  /\ txt = [n \in ZoneNames |-> Unknown]
  /\ stack = <<>>
  /\ ret = Returned("None", "", "nil")
  /\ phase = "idle"
  /\ last = NoParse
  /\ limit0 = LookupLimit
  /\ cpc = [c \in Callers |-> "idle"]
  /\ cop = [c \in Callers |-> NoOp]
  /\ ncalls = 0
  /\ lastCall = NoCall
  /\ queries = 0
  /\ decrements = 0
  /\ InitMatch
  /\ InitPure

\* the return of the innermost checkHost to its caller
Return(r) ==
  /\ stack' = Pop
  /\ ret' = r
  /\ phase' = IF Len(stack) = 1 THEN "done" ELSE phase

\* the return of the innermost parse, and with it of its checkHost
ReturnParse(f, r, redirected) ==
  /\ Return(r)
  /\ last' = [Domain |-> f.Domain, classified |-> TRUE,
              Mechanisms |-> f.Mechanisms, Redirect |-> f.Redirect,
              log |-> f.log, redirected |-> redirected, result |-> r.result]

\* spf.go:113-118
CheckHost(d) ==
  /\ phase = "idle"
  /\ phase' = "running"
  /\ limit' = LookupLimit
  /\ stack' = <<NewFrame(d)>>
  /\ UNCHANGED <<delegated, limitHit, txt, ret, last>>
  /\ UNCHANGED <<lvars, mvars, pvars>>

\* parser.go:667-676: lex, sortTokens and the start of the loop
parseStart(f, tokens) ==
  LET srt == sortTokens(tokens) IN
  IF srt.err # "nil"
    THEN /\ Return(Returned("Permerror", "", srt.err))
         /\ last' = [NoParse EXCEPT !.Domain = f.Domain, !.result = "Permerror"]
    ELSE /\ stack' = SetTop([f EXCEPT !.pc = "loop",
                                      !.Mechanisms = srt.Mechanisms,
                                      !.Redirect = srt.Redirect,
                                      !.Explanation = srt.Explanation])
         /\ UNCHANGED <<ret, phase, last>>

\* resolver_meikg.go:27-39: the error exchange returns for an outcome
exchange(e) ==
  CASE e = "err" -> "ErrDNSTemperror"
    [] e = "nxdomain" -> "ErrDNSPermerror"
    [] e = "servfail" -> "ErrDNSTemperror"
    [] OTHER -> "nil"

\* a permanent DNS error is not told apart from the other errors
lookupErrResultNoNone(err) ==
  IF err = "errDNSLimitExceeded" THEN Returned("Permerror", "", err)
  ELSE Returned("Temperror", "", err)

\* spf.go:132-142: what checkHost returns for an error of LookupTXT
lookupErrResult(err) ==
  CASE err = "errDNSLimitExceeded" -> Returned("Permerror", "", err)
    [] err = "ErrDNSPermerror" -> Returned("None", "", "nil")
    [] OTHER -> Returned("Temperror", "", err)

\* spf.go:120-145
checkHost ==
  /\ phase = "running"
  /\ Top.pc = "checkHost"
  /\ LET f == Top
         n == normalizeFQDN(f.Domain)
         c == checkAndDecrLimit(limit)
     IN IF ~isDomainName(f.Domain)
          THEN /\ Return(Returned("None", "", "ErrInvalidDomain"))
               /\ UNCHANGED <<limit, delegated, limitHit, txt, last>>
        ELSE IF c.err # "nil"
          THEN /\ limit' = c.limit
               /\ limitHit' = TRUE
               /\ Return(lookupErrResult(c.err))
               /\ UNCHANGED <<delegated, txt, last>>
        ELSE /\ limit' = c.limit
             /\ delegated' = delegated + 1
             /\ UNCHANGED limitHit
             /\ \E ans \in (IF txt[n] = Unknown THEN TXTAnswers(n) ELSE {txt[n]}) :
                  /\ txt' = [txt EXCEPT ![n] = ans]
                  /\ CASE ans.kind = "nxdomain" ->
                            /\ Return(lookupErrResult(exchange("nxdomain")))
                            /\ UNCHANGED last
                       [] ans.kind = "temperror" ->
                            /\ Return(lookupErrResult(exchange("servfail")))
                            /\ UNCHANGED last
                       [] OTHER -> parseStart(f, ans.tokens)
  /\ UNCHANGED <<lvars, mvars, pvars>>

(***************************************************************************)
(* The loop of parse over the mechanisms (parser.go:678-706).              *)
(***************************************************************************)
AnswerPairs == {<<a, b>> : a \in Exchange, b \in Exchange}

HostAnswers == SeqsUpTo(AnswerPairs, MaxMXHosts) \ {<<>>}

NoDNS == [answers |-> <<>>, mx |-> "miss", hosts |-> <<>>]

\* the answers of the DNS exchanges the mechanism of token t may make
DNSInputs(t) ==
  IF t.mechanism \in {"tA", "tExists"}
    THEN {[answers |-> p, mx |-> "miss", hosts |-> <<>>] : p \in AnswerPairs}
  ELSE IF t.mechanism = "tMX"
    THEN {[answers |-> <<>>, mx |-> m, hosts |-> <<>>] :
            m \in Exchange \ {"hit"}}
           \cup {[answers |-> <<>>, mx |-> "hit", hosts |-> h] :
                   h \in HostAnswers}
  ELSE {NoDNS}

\* handleExplanation (parser.go:1079-1112) returns the expanded text of the
\* TXT answer, or "" with an error
Explanations ==
  {[text |-> "explanation", err |-> "nil"], [text |-> "", err |-> "nil"],
   [text |-> "", err |-> "SyntaxError"]}

\* no include is taken for one without a domain
includeNeverEmpty(t) == FALSE

\* parser.go:986-991: the include whose domain is empty
includeIsEmpty(t) == isEmpty(t.value)

\* an include that passes returns Pass whatever its qualifier
includeResultNoQualifier(t, inner) ==
  IF inner.err # "nil" THEN Ret(FALSE, "None", "SyntaxError")
  ELSE IF inner.result = "Pass" THEN Ret(TRUE, "Pass", "nil")
  ELSE Ret(FALSE, "None", "nil")

\* parser.go:994-1015: the result of an include from what CheckHost returned
includeResult(t, inner) ==
  LET result == matchingResult(t.qualifier).result IN
  IF inner.err # "nil" THEN Ret(FALSE, "None", "SyntaxError")
  ELSE IF inner.result = "Pass" THEN Ret(TRUE, result, "nil")
  ELSE Ret(FALSE, "None", "nil")

\* parser.go:679-696, the switch for every mechanism but a recursing include;
\* a ptr token has no case and leaves matches, result and err as they were
evalMechanism(f, t, dns) ==
  CASE t.mechanism = "tVersion" -> parseVersion(t)
    [] t.mechanism = "tAll" -> parseAll(t)
    [] t.mechanism = "tA" -> parseA(t, f.Domain, dns.answers)
    [] t.mechanism = "tIP4" -> parseIP4(t, ClientIP)
    [] t.mechanism = "tIP6" -> parseIP6(t, ClientIP)
    [] t.mechanism = "tMX" -> parseMX(t, f.Domain, dns.mx, dns.hosts)
    [] t.mechanism = "tInclude" -> Ret(TRUE, "Permerror", "SyntaxError")
    [] t.mechanism = "tExists" -> parseExists(t, dns.answers)
    [] OTHER -> Ret(FALSE, f.result, f.err)

\* the loop does not stop at a match
afterMechanismNoStop(f, t, mr, inner) ==
  /\ stack' = SetTop([f EXCEPT !.log = Append(f.log, Entry(t, mr, inner)),
                               !.pc = "loop", !.i = f.i + 1,
                               !.result = mr.result, !.err = mr.err])
  /\ UNCHANGED <<ret, phase, last>>

\* the explanation is fetched for every match, whatever its result
afterMechanismExplainsAll(f, t, mr, inner) ==
  LET g == [f EXCEPT !.log = Append(f.log, Entry(t, mr, inner))] IN
  IF mr.matches
    THEN IF f.Explanation # NoToken
           THEN \E x \in Explanations :
                  ReturnParse(g, Returned(mr.result, x.text, x.err), FALSE)
           ELSE ReturnParse(g, Returned(mr.result, "", mr.err), FALSE)
    ELSE /\ stack' = SetTop([g EXCEPT !.pc = "loop", !.i = f.i + 1,
                                      !.result = mr.result, !.err = mr.err])
         /\ UNCHANGED <<ret, phase, last>>

\* parser.go:698-706: return on a match, otherwise go on with the next token
afterMechanism(f, t, mr, inner) ==
  LET g == [f EXCEPT !.log = Append(f.log, Entry(t, mr, inner))] IN
  IF mr.matches
    THEN IF mr.result = "Fail" /\ f.Explanation # NoToken
           THEN \E x \in Explanations :
                  ReturnParse(g, Returned("Fail", x.text, x.err), FALSE)
           ELSE ReturnParse(g, Returned(mr.result, "", mr.err), FALSE)
    ELSE /\ stack' = SetTop([g EXCEPT !.pc = "loop", !.i = f.i + 1,
                                      !.result = mr.result, !.err = mr.err])
         /\ UNCHANGED <<ret, phase, last>>

\* every recursive CheckHost call gets a budget of its own
freshBudget(l) == LookupLimit

\* the budget a recursive CheckHost call of include or redirect works with:
\* the enclosing evaluation's own counter
recursionBudget(l) == l

\* parser.go:678-706, one iteration for a mechanism that does not recurse
parseMechanism ==
  /\ phase = "running"
  /\ Top.pc = "loop"
  /\ Top.i <= Len(Top.Mechanisms)
  /\ LET f == Top
         t == f.Mechanisms[f.i]
     IN /\ ~(t.mechanism = "tInclude" /\ ~includeIsEmpty(t))
        /\ \E dns \in DNSInputs(t) :
             afterMechanism(f, t, evalMechanism(f, t, dns), "-")
  /\ UNCHANGED <<limit, delegated, limitHit, txt>>
  /\ UNCHANGED <<lvars, mvars, pvars>>

\* parser.go:986-993: parseInclude up to its call of CheckHost
parseIncludeCall ==
  /\ phase = "running"
  /\ Top.pc = "loop"
  /\ Top.i <= Len(Top.Mechanisms)
  /\ LET f == Top
         t == f.Mechanisms[f.i]
     IN /\ t.mechanism = "tInclude"
        /\ ~includeIsEmpty(t)
        /\ stack' = Append(SetTop([f EXCEPT !.pc = "include"]), NewFrame(t.value))
  /\ limit' = recursionBudget(limit)
  /\ UNCHANGED <<delegated, limitHit, txt, ret, phase, last>>
  /\ UNCHANGED <<lvars, mvars, pvars>>

\* parser.go:993-1015: parseInclude from the return of CheckHost on
parseIncludeReturn ==
  /\ phase = "running"
  /\ Top.pc = "include"
  /\ LET f == Top
         t == f.Mechanisms[f.i]
     IN afterMechanism(f, t, includeResult(t, ret), ret.result)
  /\ UNCHANGED <<limit, delegated, limitHit, txt>>
  /\ UNCHANGED <<lvars, mvars, pvars>>

\* the redirect is followed whatever the result of the mechanisms
redirectAppliesAnyResult(result, Redirect) == Redirect # NoToken

\* parser.go:1059: the redirect is followed
redirectApplies(result, Redirect) == ~(result # "None" \/ Redirect = NoToken)

\* parser.go:1065-1074: the result of a redirect from what CheckHost returned
redirectResult(inner) ==
  IF inner.err # "nil" THEN Returned("Permerror", "", inner.err)
  ELSE IF inner.result = "None" \/ inner.result = "Permerror"
    THEN Returned("Permerror", "", "nil")
  ELSE Returned(inner.result, "", "nil")

\* parser.go:708-710 and 1056-1065: the end of the loop and handleRedirect
\* up to its call of CheckHost
handleRedirect ==
  /\ phase = "running"
  /\ Top.pc = "loop"
  /\ Top.i > Len(Top.Mechanisms)
  /\ LET f == Top IN
       IF redirectApplies(f.result, f.Redirect)
         THEN /\ stack' = Append(SetTop([f EXCEPT !.pc = "redirect"]),
                                 NewFrame(f.Redirect.value))
              /\ limit' = recursionBudget(limit)
              /\ UNCHANGED <<ret, phase, last>>
         ELSE /\ ReturnParse(f, Returned(f.result, "", "nil"), FALSE)
              /\ UNCHANGED limit
  /\ UNCHANGED <<delegated, limitHit, txt>>
  /\ UNCHANGED <<lvars, mvars, pvars>>

\* parser.go:1065-1076 and 710: handleRedirect from the return of CheckHost on
handleRedirectReturn ==
  /\ phase = "running"
  /\ Top.pc = "redirect"
  /\ ReturnParse(Top, redirectResult(ret), TRUE)
  /\ UNCHANGED <<limit, delegated, limitHit, txt>>
  /\ UNCHANGED <<lvars, mvars, pvars>>

Next ==
  \/ \E d \in TopDomains : CheckHost(d)
  \/ checkHost
  \/ parseMechanism
  \/ parseIncludeCall
  \/ parseIncludeReturn
  \/ handleRedirect
  \/ handleRedirectReturn

Spec == Init /\ [][Next]_vars

(***************************************************************************)
(* Goroutines calling the operations of one wrapper concurrently.  Each of *)
(* LookupTXT, Exists, MatchIP and MatchMX (resolver_limited.go:96-139)     *)
(* runs checkAndDecrLimit and, when it returns nil, the wrapped resolver's *)
(* operation.                                                              *)
(***************************************************************************)
InitLimit ==
  /\ limit0 \in 0..MaxLimit
  /\ limit = limit0
  /\ delegated = 0
  /\ limitHit = FALSE
  /\ txt = [n \in ZoneNames |-> Unknown]
  /\ stack = <<>>
  /\ ret = Returned("None", "", "nil")
  /\ phase = "idle"
  /\ last = NoParse
  /\ cpc = [c \in Callers |-> "idle"]
  /\ cop = [c \in Callers |-> NoOp]
  /\ ncalls = 0
  /\ lastCall = NoCall
  /\ queries = 0
  /\ decrements = 0
  /\ InitMatch
  /\ InitPure

\* resolver_limited.go:82-85: the call of an operation and the atomic load
limitLoad(c, op) ==
  /\ cpc[c] = "idle"
  /\ ncalls < MaxCalls
  /\ ncalls' = ncalls + 1
  /\ IF loadFails(limit)
       THEN /\ lastCall' = [op |-> op, pre |-> limit, decr |-> 0,
                            queries |-> 0, err |-> "errDNSLimitExceeded"]
            /\ limitHit' = TRUE
            /\ UNCHANGED <<cpc, cop>>
       ELSE /\ cpc' = [cpc EXCEPT ![c] = "loaded"]
            /\ cop' = [cop EXCEPT ![c] = op]
            /\ UNCHANGED <<lastCall, limitHit>>
  /\ UNCHANGED <<limit, delegated, limit0, queries, decrements>>
  /\ UNCHANGED <<evars, mvars, pvars>>

\* resolver_limited.go:86-90 and the delegation: the atomic add, its test
\* and the call of the wrapped resolver
limitAdd(c) ==
  /\ cpc[c] = "loaded"
  /\ limit' = addInt32(limit)
  /\ decrements' = decrements + 1
  /\ cpc' = [cpc EXCEPT ![c] = "idle"]
  /\ cop' = [cop EXCEPT ![c] = NoOp]
  /\ IF addFails(limit')
       THEN /\ lastCall' = [op |-> cop[c], pre |-> limit,
                            decr |-> limit - limit', queries |-> 0,
                            err |-> "errDNSLimitExceeded"]
            /\ limitHit' = TRUE
            /\ UNCHANGED <<delegated, queries>>
       ELSE /\ lastCall' = [op |-> cop[c], pre |-> limit,
                            decr |-> limit - limit',
                            queries |-> miekgQueries(cop[c]), err |-> "nil"]
            /\ delegated' = delegated + 1
            /\ queries' = queries + miekgQueries(cop[c])
            /\ UNCHANGED limitHit
  /\ UNCHANGED <<limit0, ncalls>>
  /\ UNCHANGED <<evars, mvars, pvars>>

NextLimit ==
  \/ \E c \in Callers, op \in Ops : limitLoad(c, op)
  \/ \E c \in Callers : limitAdd(c)

SpecLimit == InitLimit /\ [][NextLimit]_vars

(***************************************************************************)
(* MatchIP and MatchMX of the wrapped resolver (resolver_meikg.go:95-174): *)
(* the goroutines that make the queries, the unbuffered channel hits they  *)
(* send on, the goroutine that closes it and the caller that ranges over   *)
(* it.  A send happens only together with a receive of the caller.         *)
(***************************************************************************)
\* resolver_meikg.go:105-115: what a goroutine of MatchIP sends for the
\* outcome of its query; an answer without an accepted address sends nothing
ipWorkerSends(e) == exchange(e) # "nil" \/ e = "hit"

ipWorkerHit(e) ==
  IF exchange(e) # "nil" THEN Hit(FALSE, exchange(e)) ELSE Hit(TRUE, "nil")

\* resolver_meikg.go:95-131: the values MatchIP may return for the outcomes
\* of its A and AAAA queries: the first value received, or (false, nil)
matchIPOutcomes(pair) ==
  LET sent == {ipWorkerHit(pair[q]) : q \in {q \in 1..2 : ipWorkerSends(pair[q])}}
  IN IF sent = {} THEN {Hit(FALSE, "nil")} ELSE sent

Worker(pc, h) == [pc |-> pc, hit |-> h]

\* resolver_meikg.go:95-103, 119-122: MatchIP starts a goroutine for each of
\* the A and AAAA queries and the goroutine that closes hits
MatchIP(pair) ==
  /\ mrecv = "idle"
  /\ mcall' = [name |-> "MatchIP", mx |-> "hit", answers |-> <<pair>>,
               closer |-> TRUE]
  /\ workers' = [q \in 1..2 |-> Worker("exchange", Hit(FALSE, "nil"))]
  /\ mrecv' = "range"
  /\ UNCHANGED <<closed, mret>>
  /\ UNCHANGED <<limit, delegated, limitHit, evars, lvars, pvars>>

\* resolver_meikg.go:137-164: MatchMX makes the MX query and starts a
\* goroutine for each MX host and the goroutine that closes hits
MatchMX(mx, hosts) ==
  /\ mrecv = "idle"
  /\ IF exchange(mx) # "nil"
       THEN /\ mcall' = [name |-> "MatchMX", mx |-> mx, answers |-> <<>>,
                         closer |-> FALSE]
            /\ workers' = <<>>
            /\ mret' = Hit(FALSE, exchange(mx))
            /\ mrecv' = "returned"
       ELSE LET hs == IF mx = "hit" THEN hosts ELSE <<>> IN
            /\ mcall' = [name |-> "MatchMX", mx |-> mx, answers |-> hs,
                         closer |-> TRUE]
            /\ workers' = [h \in 1..Len(hs) |->
                             Worker("exchange", Hit(FALSE, "nil"))]
            /\ mrecv' = "range"
            /\ UNCHANGED mret
  /\ UNCHANGED closed
  /\ UNCHANGED <<limit, delegated, limitHit, evars, lvars, pvars>>

\* resolver_meikg.go:103-116 and 154-158: a goroutine makes its query (of
\* MatchMX: its call of MatchIP) and goes on to send, or is done
workerQuery(w) ==
  /\ w \in 1..Len(workers)
  /\ workers[w].pc = "exchange"
  /\ IF mcall.name = "MatchIP"
       THEN LET e == mcall.answers[1][w] IN
            workers' = [workers EXCEPT ![w] =
                          IF ipWorkerSends(e)
                            THEN Worker("send", ipWorkerHit(e))
                            ELSE Worker("done", Hit(FALSE, "nil"))]
       ELSE \E h \in matchIPOutcomes(mcall.answers[w]) :
              workers' = [workers EXCEPT ![w] = Worker("send", h)]
  /\ UNCHANGED <<mcall, closed, mrecv, mret>>
  /\ UNCHANGED <<limit, delegated, limitHit, evars, lvars, pvars>>

\* resolver_meikg.go:124-128 and 166-170: the caller receives what a
\* goroutine sends and returns it if it is a match or an error
deliver(w) ==
  /\ w \in 1..Len(workers)
  /\ workers[w].pc = "send"
  /\ mrecv = "range"
  /\ workers' = [workers EXCEPT ![w].pc = "done"]
  /\ IF workers[w].hit.found \/ workers[w].hit.err # "nil"
       THEN mret' = workers[w].hit /\ mrecv' = "returned"
       ELSE UNCHANGED <<mret, mrecv>>
  /\ UNCHANGED <<mcall, closed>>
  /\ UNCHANGED <<limit, delegated, limitHit, evars, lvars, pvars>>

\* hits is never closed
hitsNeverClosed == FALSE /\ UNCHANGED vars

\* resolver_meikg.go:119-122 and 161-164: wg.Wait() returns and hits is
\* closed
closeHits ==
  /\ mcall.closer
  /\ ~closed
  /\ \A w \in 1..Len(workers) : workers[w].pc = "done"
  /\ closed' = TRUE
  /\ UNCHANGED <<mcall, workers, mrecv, mret>>
  /\ UNCHANGED <<limit, delegated, limitHit, evars, lvars, pvars>>

\* resolver_meikg.go:124-130 and 166-173: the range over the closed channel
\* ends and the call returns (false, nil)
rangeEnd ==
  /\ mrecv = "range"
  /\ closed
  /\ mret' = Hit(FALSE, "nil")
  /\ mrecv' = "returned"
  /\ UNCHANGED <<mcall, workers, closed>>
  /\ UNCHANGED <<limit, delegated, limitHit, evars, lvars, pvars>>

\* the answers to the A and AAAA queries for an MX host: exchange makes one
\* error of a transport failure and a server failure, "err" stands for both
MXHostPairs == {p \in AnswerPairs : p[1] # "servfail" /\ p[2] # "servfail"}

MXHostAnswers == SeqsUpTo(MXHostPairs, MaxMXHosts) \ {<<>>}

NextMatch ==
  \/ mrecv = "idle" /\ \E pair \in AnswerPairs : MatchIP(pair)
  \/ mrecv = "idle" /\ \E mx \in Exchange, hosts \in MXHostAnswers :
                         MatchMX(mx, hosts)
  \/ \E w \in 1..MaxMXHosts + 2 : workerQuery(w)
  \/ \E w \in 1..MaxMXHosts + 2 : deliver(w)
  \/ closeHits
  \/ rangeEnd

SpecMatch == Init /\ [][NextMatch]_vars

\* the scheduler runs every goroutine that can take a step, and every DNS
\* exchange returns: the goroutines of the queries, the caller receiving from
\* hits, the goroutine that waits and closes hits
FairMatch ==
  /\ \A w \in 1..MaxMXHosts + 2 : WF_vars(workerQuery(w)) /\ WF_vars(deliver(w))
  /\ WF_vars(closeHits)
  /\ WF_vars(rangeEnd)

SpecMatchLive == Init /\ [][NextMatch]_vars /\ FairMatch

(***************************************************************************)
(* The classification of a token list: parse from its call of sortTokens   *)
(* to the start of the loop (parser.go:668-676).                           *)
(***************************************************************************)
\* the evaluation, the wrapper's callers and MatchIP/MatchMX at rest
Quiet ==
  /\ limit = LookupLimit
  /\ delegated = 0
  /\ limitHit = FALSE
  /\ txt = [n \in ZoneNames |-> Unknown]
  /\ stack = <<>>
  /\ ret = Returned("None", "", "nil")
  /\ phase = "idle"
  /\ last = NoParse
  /\ limit0 = LookupLimit
  /\ cpc = [c \in Callers |-> "idle"]
  /\ cop = [c \in Callers |-> NoOp]
  /\ ncalls = 0
  /\ lastCall = NoCall
  /\ queries = 0
  /\ decrements = 0
  /\ InitMatch

MaxTokens == 4

SortPool ==
  {Version, Tok("tAll", "qMinus", <<>>), TokIP("tIP4", "qPlus", ClientIP),
   Tok("tRedirect", "qPlus", A), Tok("tRedirect", "qPlus", B),
   Tok("tExp", "qPlus", B), Tok("tErr", "qErr", <<>>)}

SortInputs == SeqsUpTo(SortPool, MaxTokens)

InitSort ==
  /\ fin \in {[fn |-> "sortTokens", tokens |-> ts] : ts \in SortInputs}
  /\ fout = NotRun
  /\ Quiet

\* parser.go:668-676: sortTokens, and Permerror if it returns an error
classify ==
  /\ fin.fn = "sortTokens"
  /\ ~fout.done
  /\ fout' = LET r == sortTokens(fin.tokens)
             IN [done |-> TRUE, err |-> r.err, Mechanisms |-> r.Mechanisms,
                 Redirect |-> r.Redirect, Explanation |-> r.Explanation,
                 result |-> IF r.err # "nil" THEN "Permerror" ELSE "None"]
  /\ UNCHANGED fin
  /\ UNCHANGED <<limit, delegated, limitHit, evars, lvars, mvars>>

NextSort == classify

SpecSort == InitSort /\ [][NextSort]_vars

(***************************************************************************)
(* One mechanism evaluated on its own: a token, the domain of the parser   *)
(* and the answers DNS gives to the queries of the mechanism.              *)
(***************************************************************************)
\* what net.ParseCIDR and net.ParseIP make of the value of an ip4 or ip6
\* token: an address or a network of either family, or neither
IPValues ==
  {[form |-> "ip", fam |-> f, addr |-> a, plen |-> 0] :
     f \in {4, 6}, a \in 0..(Pow2(AddrBits) - 1)}
    \cup {[form |-> "cidr", fam |-> f, addr |-> a, plen |-> n] :
            f \in {4, 6}, a \in 0..(Pow2(AddrBits) - 1), n \in 0..AddrBits}
    \cup {[form |-> "bad", fam |-> 0, addr |-> 0, plen |-> 0]}

MechInputs ==
  {Tok("tA", q, v) : q \in Qualifiers, v \in {<<>>, B}}
    \cup {TokIP(m, q, a) : m \in {"tIP4", "tIP6"}, q \in Qualifiers,
                           a \in IPValues}
    \cup {Tok(m, q, v) : m \in {"tMX", "tExists"}, q \in {"qPlus", "qMinus"},
                         v \in {<<>>, B}}
    \cup {Tok("tInclude", q, <<>>) : q \in {"qPlus", "qMinus"}}

InitMech ==
  /\ fin \in UNION {{[fn |-> "mechanism", Domain |-> A, t |-> t, dns |-> d] :
                       d \in DNSInputs(t)} : t \in MechInputs}
  /\ fout = NotRun
  /\ Quiet

\* parser.go:679-696: one pass through the switch of parse
mechanism ==
  /\ fin.fn = "mechanism"
  /\ ~fout.done
  /\ fout' = LET f == [NewFrame(fin.Domain) EXCEPT !.pc = "loop"]
                 r == evalMechanism(f, fin.t, fin.dns)
             IN [done |-> TRUE, matches |-> r.matches, result |-> r.result,
                 err |-> r.err]
  /\ UNCHANGED fin
  /\ UNCHANGED <<limit, delegated, limitHit, evars, lvars, mvars>>

NextMech == mechanism

SpecMech == InitMech /\ [][NextMech]_vars

(***************************************************************************)
(* Macro expansion (spf/macro.go).  ParseMacro runs the state functions    *)
(* scanText, scanPercent and scanMacro over the input until one returns no *)
(* next state or an error.  Positions are byte offsets from 0, as in the   *)
(* code; the output is kept joined.  zero records that parseDelimiter read *)
(* a cardinality of 0.                                                     *)
(***************************************************************************)
MaxMacroLen == 5

MacroChars == {"%", "{", "}", "d", "0", "2", "r", "-"}

MacroInputs == SeqsUpTo(MacroChars, MaxMacroLen)

\* the domain of the parser, "a.b"
MacroDomain == <<"a", ".", "b">>

\* lexer.go:224
isDigit(ch) == ch \in {"0", "1", "2", "3", "4", "5", "6", "7", "8", "9"}

\* macro.go:243-245
isMacroDelimiter(ch) == ch \in {".", "-", "+", ",", "/", "_", "="}

DigitValue(ch) ==
  CASE ch = "0" -> 0 [] ch = "1" -> 1 [] ch = "2" -> 2 [] ch = "3" -> 3
    [] ch = "4" -> 4 [] ch = "5" -> 5 [] ch = "6" -> 6 [] ch = "7" -> 7
    [] ch = "8" -> 8 [] OTHER -> 9

\* strconv.Atoi on a string of digits
RECURSIVE Atoi(_)
Atoi(ds) ==
  IF ds = <<>> THEN 0
  ELSE 10 * Atoi(SubSeq(ds, 1, Len(ds) - 1)) + DigitValue(ds[Len(ds)])

\* strings.Split(value, delimiter), the part being built in cur
RECURSIVE SplitFrom(_, _, _, _)
SplitFrom(value, d, i, cur) ==
  IF i > Len(value) THEN <<cur>>
  ELSE IF value[i] = d THEN <<cur>> \o SplitFrom(value, d, i + 1, <<>>)
  ELSE SplitFrom(value, d, i + 1, Append(cur, value[i]))

Split(value, d) == SplitFrom(value, d, 1, <<>>)

\* strings.Join(parts, ".")
RECURSIVE Join(_)
Join(parts) ==
  IF parts = <<>> THEN <<>>
  ELSE IF Len(parts) = 1 THEN parts[1]
  ELSE parts[1] \o <<".">> \o Join(Tail(parts))

Reverse(parts) == [i \in 1..Len(parts) |-> parts[Len(parts) + 1 - i]]

\* input[a:b]
Slice(input, a, b) == SubSeq(input, a + 1, b)

\* macro.go:32-34
newMacro ==
  [done |-> FALSE, state |-> "scanText", start |-> 0, pos |-> 0, prev |-> 0,
   output |-> <<>>, err |-> "nil", zero |-> FALSE]

\* macro.go:63-71: the rune read is r, eof tells that there was none
next(input, m) ==
  IF m.pos >= Len(input) THEN [m |-> m, r |-> "", eof |-> TRUE]
  ELSE [m |-> [m EXCEPT !.prev = m.pos, !.pos = m.pos + 1],
        r |-> input[m.pos + 1], eof |-> FALSE]

\* macro.go:75
moveon(m) == [m EXCEPT !.start = m.pos]

\* macro.go:78
back(m) == [m EXCEPT !.pos = m.prev]

\* ParseMacro returns "" and the error (macro.go:42-46)
Failed(m) == [m EXCEPT !.done = TRUE, !.state = "nil", !.err = "error"]

NoItem == [m |-> newMacro, err |-> "error", text |-> <<>>]

\* macro.go:298-327: the item from its value, cardinality, delimiter, reversal
handleItem(value, cardinality, delimiter, reversed) ==
  LET split == cardinality > 0 \/ reversed \/ delimiter # "*"
      d == IF delimiter = "*" THEN "." ELSE delimiter
      parts == IF split
                 THEN IF reversed THEN Reverse(Split(value, d))
                                  ELSE Split(value, d)
                 ELSE <<value>>
      c1 == IF cardinality = -1 THEN Len(parts) ELSE cardinality
      c2 == IF c1 > -1 /\ c1 > Len(parts) THEN Len(parts) ELSE c1
  IN Join(SubSeq(parts, Len(parts) - c2 + 1, Len(parts)))

\* macro.go:293-327: r must close the macro
closeItem(m, r, value, cardinality, delimiter, reversed) ==
  IF r # "}" THEN NoItem
  ELSE [m |-> back(m), err |-> "nil",
        text |-> handleItem(value, cardinality, delimiter, reversed)]

\* macro.go:286-292: an optional delimiter
readDelimiter(input, m, r, value, cardinality, reversed) ==
  IF isMacroDelimiter(r)
    THEN LET n == next(input, m) IN
         IF n.eof THEN NoItem
         ELSE closeItem(n.m, n.r, value, cardinality, r, reversed)
    ELSE closeItem(m, r, value, cardinality, "*", reversed)

\* macro.go:279-285: an optional r
readReversed(input, m, r, value, cardinality) ==
  IF r = "r"
    THEN LET n == next(input, m) IN
         IF n.eof THEN NoItem
         ELSE readDelimiter(input, n.m, n.r, value, cardinality, TRUE)
    ELSE readDelimiter(input, m, r, value, cardinality, FALSE)

\* macro.go:254-271: the loop over the digits of the cardinality
RECURSIVE readDigits(_, _, _)
readDigits(input, m, value) ==
  LET n == next(input, m) IN
  IF n.eof THEN NoItem
  ELSE IF isDigit(n.r) THEN readDigits(input, n.m, value)
  ELSE LET b == back(n.m)
           cardinality == Atoi(Slice(input, b.start, b.pos))
           a == next(input, b)
           z == [a.m EXCEPT !.zero = a.m.zero \/ cardinality = 0]
       IN IF a.eof THEN NoItem
          ELSE readReversed(input, z, a.r, value, cardinality)

\* macro.go:237-328
parseDelimiter(input, m, value) ==
  LET n == next(input, m) IN
  IF n.eof THEN NoItem
  ELSE IF isDigit(n.r) THEN readDigits(input, back(n.m), value)
  ELSE readReversed(input, n.m, n.r, value, -1)

InitMacro ==
  /\ fin \in {[fn |-> "ParseMacro", input |-> i, Domain |-> MacroDomain] :
                i \in MacroInputs}
  /\ fout = newMacro
  /\ Quiet

RECURSIVE PercentFrom(_, _)
\* the offset of the first "%" of input from offset i on, Len(input) if none
PercentFrom(input, i) ==
  IF i >= Len(input) THEN Len(input)
  ELSE IF input[i + 1] = "%" THEN i
  ELSE PercentFrom(input, i + 1)

\* macro.go:82-103
scanText ==
  /\ fin.fn = "ParseMacro"
  /\ fout.state = "scanText"
  /\ LET m == fout
         k == PercentFrom(fin.input, m.pos)
     IN fout' =
          IF k = Len(fin.input)
            THEN LET e == [m EXCEPT !.pos = k,
                                    !.prev = IF k > m.pos THEN k - 1 ELSE m.prev]
                 IN [moveon(e) EXCEPT
                       !.output = m.output \o Slice(fin.input, m.start, k),
                       !.state = "nil", !.done = TRUE]
            ELSE LET e == [m EXCEPT !.pos = k + 1, !.prev = k]
                 IN [moveon(e) EXCEPT
                       !.output = m.output \o Slice(fin.input, m.start, k),
                       !.state = "scanPercent"]
  /\ UNCHANGED fin
  /\ UNCHANGED <<limit, delegated, limitHit, evars, lvars, mvars>>

\* macro.go:105-126
scanPercent ==
  /\ fin.fn = "ParseMacro"
  /\ fout.state = "scanPercent"
  /\ LET n == next(fin.input, fout) IN
     fout' =
       IF n.eof THEN Failed(fout)
       ELSE CASE n.r = "{" -> [moveon(n.m) EXCEPT !.state = "scanMacro"]
              [] n.r = "%" ->
                   [moveon(n.m) EXCEPT !.output = @ \o <<"%">>,
                                       !.state = "scanText"]
              [] n.r = "_" ->
                   [moveon(n.m) EXCEPT !.output = @ \o <<" ">>,
                                       !.state = "scanText"]
              [] n.r = "-" ->
                   [moveon(n.m) EXCEPT !.output = @ \o <<"%", "2", "0">>,
                                       !.state = "scanText"]
              [] OTHER -> Failed(n.m)
  /\ UNCHANGED fin
  /\ UNCHANGED <<limit, delegated, limitHit, evars, lvars, mvars>>

\* macro.go:219-233: the macro must be closed by "}"
closeMacro(input, m) ==
  LET n == next(input, m) IN
  IF n.eof THEN Failed(m)
  ELSE IF n.r # "}" THEN Failed(n.m)
  ELSE [moveon(n.m) EXCEPT !.state = "scanText"]

\* macro.go:135-234, for the letters d, h, p and every rune without a case
scanMacro ==
  /\ fin.fn = "ParseMacro"
  /\ fout.state = "scanMacro"
  /\ LET n == next(fin.input, fout) IN
     fout' =
       IF n.eof THEN Failed(fout)
       ELSE IF n.r \in {"d", "h"}
         THEN LET item == parseDelimiter(fin.input, moveon(n.m), fin.Domain)
              IN IF item.err # "nil" THEN Failed(n.m)
                 ELSE closeMacro(fin.input,
                                 moveon([item.m EXCEPT
                                           !.output = @ \o item.text]))
       ELSE closeMacro(fin.input, n.m)
  /\ UNCHANGED fin
  /\ UNCHANGED <<limit, delegated, limitHit, evars, lvars, mvars>>

NextMacro == scanText \/ scanPercent \/ scanMacro

SpecMacro == InitMacro /\ [][NextMacro]_vars

(***************************************************************************)
(* Properties.                                                             *)
(***************************************************************************)
\* the logs of the parse calls in progress and of the one that returned last
Logs == {stack[j].log : j \in 1..Len(stack)} \cup {last.log}

NoMatch(log) == \A k \in 1..Len(log) : ~log[k].matches

\* C1: over every interleaving of concurrent calls on a wrapper created with
\* limit N, the number of calls delegated to the wrapped resolver never
\* exceeds N.
C1_DelegatedWithinLimit == delegated <= limit0

\* the budget of MaxLimit is used up by concurrent callers and a call failed
C1_Witness ==
  /\ limit0 = MaxLimit
  /\ delegated = limit0 - 1
  /\ limitHit
  /\ lastCall.err = "errDNSLimitExceeded"

\* C2: if any resolver call of an evaluation returns limit-exceeded, at
\* whatever depth of include or redirect recursion, the top-level evaluation
\* ends with verdict PermError.
C2_LimitExceededIsPermerror ==
  (phase = "done" /\ limitHit) => ret.result = "Permerror"

LoopA == <<Version, Tok("tInclude", "qPlus", B), Tok("tAll", "qMinus", <<>>)>>

LoopB == <<Version, Tok("tInclude", "qPlus", A), Tok("tAll", "qMinus", <<>>)>>

\* C3: the evaluation of the cyclic policy (a: "v=spf1 include:b -all",
\* b: "v=spf1 include:a -all") with a budget of 10 ends with PermError.
C3_CycleIsPermerror ==
  (/\ phase = "done"
   /\ txt[normalizeFQDN(A)] = [kind |-> "txt", tokens |-> LoopA]
   /\ txt[normalizeFQDN(B)] = [kind |-> "txt", tokens |-> LoopB])
    => ret.result = "Permerror"

\* C4: every call made while the counter's value before the decrement is at
\* least 1 is delegated (so the first l calls on a wrapper of limit l are).
C4_PreAtLeastOneIsDelegated ==
  (lastCall.op # NoOp /\ lastCall.pre >= 1) => lastCall.err = "nil"

C7_FirstMatchWins ==
  /\ \A j \in 1..Len(stack) :
       LET f == stack[j] IN
         /\ Len(f.log) = f.i - 1
         /\ NoMatch(f.log)
         /\ \A k \in 1..Len(f.log) :
              /\ f.log[k].mechanism = f.Mechanisms[k].mechanism
              /\ f.log[k].qualifier = f.Mechanisms[k].qualifier
  /\ last.classified =>
       /\ Len(last.log) <= Len(last.Mechanisms)
       /\ \A k \in 1..Len(last.log) :
            /\ last.log[k].mechanism = last.Mechanisms[k].mechanism
            /\ last.log[k].qualifier = last.Mechanisms[k].qualifier
            /\ k < Len(last.log) => ~last.log[k].matches
       /\ NoMatch(last.log) => Len(last.log) = Len(last.Mechanisms)
       /\ ~NoMatch(last.log) =>
            /\ last.result = last.log[Len(last.log)].result
            /\ ~last.redirected

\* the second of three mechanisms matched and the third was not evaluated
C7_Witness ==
  /\ last.classified
  /\ Len(last.Mechanisms) = 3
  /\ Len(last.log) = 2
  /\ last.log[2].matches
  /\ last.result = last.log[2].result

\* C8: when the inner evaluation of an include returns TempError (PermError
\* or None), no later mechanism matches and no redirect applies, the
\* enclosing evaluation returns TempError (PermError).
C8_IncludeErrorSurfaces ==
  (last.classified /\ ~last.redirected /\ NoMatch(last.log)) =>
    \A k \in 1..Len(last.log) :
      last.log[k].mechanism = "tInclude" =>
        /\ last.log[k].inner = "Temperror" => last.result = "Temperror"
        /\ last.log[k].inner \in {"Permerror", "None"} =>
             last.result = "Permerror"

\* C9: an include with a domain matches with the verdict of its own
\* qualifier when the inner evaluation returns Pass; when that returns Fail,
\* Softfail or Neutral it does not match and the next mechanism is evaluated.
C9_IncludeMapping ==
  /\ \A log \in Logs : \A k \in 1..Len(log) :
       (log[k].mechanism = "tInclude" /\ log[k].inner # "-") =>
         /\ log[k].inner = "Pass" =>
              /\ log[k].matches
              /\ log[k].result = matchingResult(log[k].qualifier).result
         /\ log[k].inner \in {"Fail", "Softfail", "Neutral"} =>
              ~log[k].matches
  /\ last.classified =>
       \A k \in 1..Len(last.log) :
         (/\ last.log[k].mechanism = "tInclude"
          /\ last.log[k].inner \in {"Fail", "Softfail", "Neutral"}
          /\ k < Len(last.Mechanisms))
           => Len(last.log) > k

\* a "-include" whose inner evaluation passed matched with the verdict Fail,
\* which became the verdict of the session
C9_Witness ==
  /\ last.classified
  /\ Len(last.log) = 2
  /\ last.log[2].mechanism = "tInclude"
  /\ last.log[2].qualifier = "qMinus"
  /\ last.log[2].inner = "Pass"
  /\ last.log[2].matches
  /\ last.result = "Fail"

\* C10: the redirect target is evaluated only if no mechanism matched, the
\* verdict at the end of the mechanism list is None and a redirect modifier
\* survived classification.
C10_RedirectOnlyIf ==
  /\ \A j \in 1..Len(stack) :
       stack[j].pc = "redirect" =>
         /\ stack[j].i > Len(stack[j].Mechanisms)
         /\ NoMatch(stack[j].log)
         /\ stack[j].result = "None"
         /\ stack[j].Redirect # NoToken
         /\ j < Len(stack) => stack[j + 1].Domain = stack[j].Redirect.value
  /\ last.redirected =>
       /\ NoMatch(last.log)
       /\ Len(last.log) = Len(last.Mechanisms)
       /\ last.Redirect # NoToken

\* the target of a redirect is being evaluated after two mechanisms that did
\* not match
C10_Witness ==
  /\ Len(stack) >= 2
  /\ stack[1].pc = "redirect"
  /\ Len(stack[1].Mechanisms) = 3
  /\ stack[2].pc = "loop"

\* C11: when a redirect is applied, a target that returns None or PermError
\* makes the verdict PermError, and every other verdict the target returns
\* is adopted unchanged.
C11_RedirectAdoptsVerdict ==
  [][(/\ stack # <<>>
      /\ Top.pc = "redirect"
      /\ Len(stack') < Len(stack))
       => ret'.result = IF ret.result \in {"None", "Permerror"}
                          THEN "Permerror"
                          ELSE ret.result]_vars

\* some query of the call in progress was answered with an address the
\* matcher accepts
AnyAccepted ==
  \E h \in 1..Len(mcall.answers) : \E q \in 1..2 : mcall.answers[h][q] = "hit"

\* C12: MatchIP and MatchMX return a positive match whenever at least one of
\* their parallel queries yields an accepted address, in whatever order the
\* goroutines deliver their results.
C12_AnyHitIsPositive ==
  (mrecv = "returned" /\ AnyAccepted) => mret.found

\* C13: the explanation a checkHost call returns is non-empty only if its
\* verdict is Fail, an exp modifier survived classification and the lookup
\* and expansion of the explanation succeeded (no error is returned).
C13_ExplanationOnlyOnFail ==
  [][(Len(stack') < Len(stack) /\ ret'.explanation # "")
       => /\ ret'.result = "Fail"
          /\ ret'.err = "nil"
          /\ Top.Explanation # NoToken
          /\ Top.pc \in {"loop", "include"}]_vars

\* the top-level evaluation ended with Fail and an explanation
C13_Witness ==
  /\ phase = "done"
  /\ ret.result = "Fail"
  /\ ret.explanation # ""
  /\ ret.err = "nil"

\* the positions of the tokens of kind m in the classified token list
Positions(m) ==
  {i \in 1..Len(fin.tokens) : fin.tokens[i].mechanism = m}

\* C14: when the token list holds an all mechanism and classification
\* succeeds, the redirect slot is empty and the exp slot holds the exp token
\* of the list, wherever redirect and exp stand relative to all.
C14_AllDropsRedirectKeepsExp ==
  (fout.done /\ fout.err = "nil" /\ Positions("tAll") # {}) =>
    /\ fout.Redirect = NoToken
    /\ \A i \in Positions("tExp") : fout.Explanation = fin.tokens[i]

\* a redirect before the all and an exp after it
C14_Witness ==
  /\ fout.done
  /\ fout.err = "nil"
  /\ \E i \in Positions("tRedirect"), j \in Positions("tAll"),
        k \in Positions("tExp") : i < j /\ j < k
  /\ fout.Redirect = NoToken
  /\ fout.Explanation # NoToken

\* C15: a token list with two redirect modifiers or two exp modifiers is
\* rejected with PermError, also when the second one stands after an all.
C15_DuplicateModifierRejected ==
  (/\ fout.done
   /\ \/ Cardinality(Positions("tRedirect")) >= 2
      \/ Cardinality(Positions("tExp")) >= 2)
    => fout.err # "nil" /\ fout.result = "Permerror"

\* the second redirect stands after the all, no token is an error token
C15_Witness ==
  /\ fout.done
  /\ Positions("tErr") = {}
  /\ \E i \in Positions("tRedirect"), j \in Positions("tAll"),
        k \in Positions("tRedirect") : i < j /\ j < k
  /\ fout.err = "too many redirect"
  /\ fout.result = "Permerror"

\* C16: whenever classification succeeds and the evaluation of the
\* mechanisms starts, the first token of the mechanism list is a version
\* token with the value spf1.
C16_VersionFirst ==
  (fout.done /\ fout.err = "nil" /\ fout.Mechanisms # <<>>) =>
    /\ fout.Mechanisms[1].mechanism = "tVersion"
    /\ fout.Mechanisms[1].value = SPF1

\* C17: at the TXT query of a checkHost call a limit-exceeded error yields
\* PermError, a permanent (NXDOMAIN) error yields None with no error and a
\* transient error yields TempError.
C17_LookupErrorMapping ==
  [][(/\ stack # <<>>
      /\ Top.pc = "checkHost"
      /\ isDomainName(Top.Domain)
      /\ stack' # stack)
       => LET n == normalizeFQDN(Top.Domain) IN
          /\ delegated' = delegated =>
               /\ Len(stack') < Len(stack)
               /\ ret'.result = "Permerror"
          /\ (delegated' # delegated /\ txt'[n].kind = "nxdomain") =>
               /\ Len(stack') < Len(stack)
               /\ ret'.result = "None"
               /\ ret'.err = "nil"
          /\ (delegated' # delegated /\ txt'[n].kind = "temperror") =>
               /\ Len(stack') < Len(stack)
               /\ ret'.result = "Temperror"]_vars

\* the TXT query of a recursive checkHost call was refused by the wrapper
\* and the call returned Permerror
C17_Witness ==
  /\ limitHit
  /\ phase = "running"
  /\ Len(stack) >= 2
  /\ ret.result = "Permerror"
  /\ ret.err = "errDNSLimitExceeded"

\* a transport error or an RCODE other than 0 and 3
Transient(e) == e \in {"err", "servfail"}

\* C18: for a, mx and exists, a transient DNS failure of the mechanism's
\* lookup (the A query of a and exists, the MX query of mx) makes the
\* mechanism return matched = true with TempError.
C18_TransientIsTemperror ==
  (/\ fout.done
   /\ \/ fin.t.mechanism = "tA" /\ Transient(fin.dns.answers[1])
      \/ /\ fin.t.mechanism = "tExists"
         /\ fin.t.value # <<>>
         /\ Transient(fin.dns.answers[1])
      \/ fin.t.mechanism = "tMX" /\ Transient(fin.dns.mx))
    => fout.matches /\ fout.result = "Temperror"

EmptyA == fout.done /\ fin.t.mechanism = "tA" /\ fin.t.value = <<>>

\* C19 as stated: an a mechanism with an empty value and a qualifier matches
\* with the verdict of the qualifier whatever DNS answers.
C19_EmptyAMatchesTrivially ==
  EmptyA => fout.matches /\ fout.result = matchingResult(fin.t.qualifier).result

\* C19 amended: an a mechanism with an empty value queries A and AAAA of
\* the current domain, as one whose value is that domain does; it matches
\* with the verdict of the qualifier exactly when the first conclusive
\* answer holds the client address, and does not match when neither does.
C19_EmptyAQueriesDomain ==
  EmptyA =>
    LET ans == fin.dns.answers
        accepted == ans[1] = "hit" \/ (ans[1] = "miss" /\ ans[2] = "hit")
        f == [NewFrame(fin.Domain) EXCEPT !.pc = "loop"]
        named == evalMechanism(f, [fin.t EXCEPT !.value = fin.Domain], fin.dns)
    IN /\ (fout.matches /\ fout.result = matchingResult(fin.t.qualifier).result)
            <=> accepted
       /\ ans = <<"miss", "miss">> => ~fout.matches
       /\ fout.matches = named.matches
       /\ fout.result = named.result
       /\ fout.err = named.err

C19_Witness ==
  /\ EmptyA
  /\ fin.t.qualifier = "qMinus"
  /\ fin.dns.answers = <<"miss", "hit">>
  /\ fout.matches
  /\ fout.result = "Fail"

\* the parser is at an include whose value is empty
AtEmptyInclude ==
  /\ phase = "running"
  /\ stack # <<>>
  /\ Top.pc = "loop"
  /\ Top.i <= Len(Top.Mechanisms)
  /\ Top.Mechanisms[Top.i].mechanism = "tInclude"
  /\ isEmpty(Top.Mechanisms[Top.i].value)

\* C20: an include with an empty value returns matched = true with Permerror
\* without a recursive evaluation (no frame is entered, the parse returns),
\* and it leaves the lookup counter as it was.
C20_EmptyIncludeNoRecursion ==
  [][AtEmptyInclude =>
       /\ Len(stack') < Len(stack)
       /\ ret'.result = "Permerror"
       /\ ret'.err = "SyntaxError"
       /\ limit' = limit
       /\ delegated' = delegated
       /\ limitHit' = limitHit
       /\ txt' = txt]_vars

C20_Witness ==
  /\ phase = "done"
  /\ last.classified
  /\ Len(last.log) = 2
  /\ last.log[2].mechanism = "tInclude"
  /\ last.log[2].inner = "-"
  /\ last.log[2].matches
  /\ last.log[2].result = "Permerror"
  /\ ret.result = "Permerror"
  /\ delegated = 1

\* the value of an ip4 or ip6 token is an address or a network of the
\* other family
WrongFamily ==
  /\ fin.t.ip.form \in {"ip", "cidr"}
  /\ \/ fin.t.mechanism = "tIP4" /\ fin.t.ip.fam = 6
     \/ fin.t.mechanism = "tIP6" /\ fin.t.ip.fam = 4

\* C21: an ip4 mechanism with an IPv6 address or CIDR, and an ip6 mechanism
\* with an IPv4 address or CIDR, returns matched = true with Permerror for
\* every qualifier.
C21_WrongFamilyIsPermerror ==
  (fout.done /\ fin.fn = "mechanism" /\ WrongFamily)
    => fout.matches /\ fout.result = "Permerror"

\* C22: macro expansion fails with an error when a macro transformer
\* specifies cardinality 0, as in %{d0}.
C22_CardinalityZeroIsError ==
  (fin.fn = "ParseMacro" /\ fout.done /\ fout.zero) => fout.err # "nil"

\* checkHost is entered with a domain that is not a domain name
AtInvalidDomain ==
  /\ phase = "running"
  /\ stack # <<>>
  /\ Top.pc = "checkHost"
  /\ ~isDomainNameFrom(Top.Domain, 1, ".", FALSE, 0)

\* C23: if the domain passed to checkHost fails the validation of domain
\* names, checkHost returns None with the invalid-domain error at once,
\* before any call of the resolver: no lookup is counted or made.
C23_InvalidDomainIsNone ==
  [][AtInvalidDomain =>
       /\ Len(stack') < Len(stack)
       /\ ret' = Returned("None", "", "ErrInvalidDomain")
       /\ limit' = limit
       /\ delegated' = delegated
       /\ limitHit' = limitHit
       /\ txt' = txt]_vars

C23_Witness ==
  /\ phase = "done"
  /\ ret = Returned("None", "", "ErrInvalidDomain")
  /\ delegated = 0
  /\ limit = limit0
  /\ \A n \in ZoneNames : txt[n] = Unknown

\* the calls of the wrapper that have returned
ReturnedCalls == ncalls - Cardinality({c \in Callers : cpc[c] = "loaded"})

\* a call of the wrapper returns in this step
CallReturns == ReturnedCalls' = ReturnedCalls + 1

C25_UnmatchedVerdictNotReturned ==
  /\ (last.classified /\ ~last.redirected /\ NoMatch(last.log)) =>
       \A k \in 1..Len(last.log) :
         last.log[k].mechanism \in {"tA", "tIP4", "tIP6", "tMX", "tExists"}
           => last.result # matchingResult(last.log[k].qualifier).result
  /\ (last.classified /\ last.result = "Pass") =>
       \/ last.redirected
       \/ \E k \in 1..Len(last.log) :
            last.log[k].matches /\ last.log[k].qualifier = "qPlus"

\* C26: the lookup-budget counter never takes a negative value, under any
\* interleaving of concurrent calls of the wrapper.
C26_CounterNeverNegative == limit >= 0

\* C27: the verdict an evaluation returns is one of the seven canonical
\* verdicts: the value matchingResult has for an invalid qualifier is never
\* the result of parse or checkHost, nor the running result of a parse.
C27_VerdictIsCanonical ==
  /\ ret.result \in Canonical
  /\ last.result \in Canonical
  /\ \A j \in 1..Len(stack) : stack[j].result \in Canonical

\* the record of the top domain holds a token whose qualifier is invalid
C27_Witness ==
  /\ phase = "done"
  /\ LET tokens == txt[normalizeFQDN(A)].tokens IN
       \E k \in 1..Len(tokens) : tokens[k].qualifier \notin Qualifiers
  /\ ret.result = "Permerror"
  /\ ret.err # "nil"

AllWorkersDone == \A w \in 1..Len(workers) : workers[w].pc = "done"

\* C28: after MatchIP or MatchMX has returned, every goroutine it started
\* terminates in the end: none stays blocked for ever sending on hits.
C28_WorkersTerminate == (mrecv = "returned") ~> AllWorkersDone

\* no goroutine of the call has a match or an error to report
NothingReported ==
  /\ mcall.mx \in {"hit", "miss"}
  /\ \A h \in 1..Len(mcall.answers) : \A q \in 1..2 :
       mcall.answers[h][q] = "miss"

\* C29: every call of MatchIP or MatchMX returns in the end, each DNS exchange
\* returning; when no goroutine reports a match or an error the call returns
\* (false, nil) and does not block.
C29_CallReturns ==
  /\ (mrecv = "range") ~> (mrecv = "returned")
  /\ [](mrecv = "returned" /\ NothingReported => mret = Hit(FALSE, "nil"))
  /\ (mrecv = "range" /\ NothingReported)
       ~> (mrecv = "returned" /\ mret = Hit(FALSE, "nil") /\ closed)

C29_Witness ==
  /\ mrecv = "returned"
  /\ mcall.name = "MatchMX"
  /\ Len(mcall.answers) = 2
  /\ NothingReported
  /\ closed
  /\ mret = Hit(FALSE, "nil")

\* C30: the lookup-budget counter never increases, and once a call on a
\* wrapper has returned the limit-exceeded error every later call on that
\* wrapper returns it as well.
C30_LimitExceededIsFinal ==
  [][/\ limit' <= limit
     /\ (limitHit /\ CallReturns) =>
          /\ lastCall'.err = "errDNSLimitExceeded"
          /\ lastCall'.queries = 0
          /\ delegated' = delegated]_vars

C30_Witness ==
  /\ limitHit
  /\ ReturnedCalls >= 3
  /\ delegated = 1
  /\ limit < 0
  /\ lastCall.err = "errDNSLimitExceeded"

====
